---- MODULE Spec2Model ----
(***************************************************************************)
(* Model of VendorSelector-AI.py: one VendorSelectorAI session that is fed *)
(* batches of supplier records (parse_input_data) and asked for reports    *)
(* (generate_final_report).                                                *)
(*                                                                         *)
(* Scores are Python floats (IEEE-754 binary64).  The model carries them   *)
(* as binary64 values and performs /, *, + and round(x, 2) with the        *)
(* rounding the hardware and CPython perform, on arbitrary-precision       *)
(* integers built from 15-bit limbs.                                       *)
(***************************************************************************)
EXTENDS Integers, Sequences, FiniteSets, TLC

VARIABLES
    suppliers,          \* self.suppliers
    validation_report,  \* self.validation_report
    last_input,         \* the argument of the latest parse_input_data call
    processed,          \* rows the latest parse_input_data call handed to _process_supplier_data
    lastCall,           \* the method called last
    raised,             \* the ValueError that left the last call, or NoError
    report,             \* the text returned by the last call, or NoReport
    calls,              \* parse_input_data calls so far
    submitted,          \* rows submitted to parse_input_data so far
    aborted             \* some parse_input_data call of the session raised

----------------------------------------------------------------------------
(* Arbitrary-precision naturals: little-endian sequences of limbs in       *)
(* 0..Base-1 without a most-significant zero limb; <<>> is zero.           *)

Base == 32768

LimbBits == 15

Pow2(n) == 2 ^ n

RECURSIVE Trim(_)
Trim(a) ==
    IF a = <<>> THEN a
    ELSE IF a[Len(a)] = 0 THEN Trim(SubSeq(a, 1, Len(a) - 1)) ELSE a

RECURSIVE FromNat(_)
FromNat(n) == IF n = 0 THEN <<>> ELSE <<n % Base>> \o FromNat(n \div Base)

RECURSIVE AddC(_, _, _)
AddC(a, b, c) ==
    IF a = <<>> /\ b = <<>> THEN (IF c = 0 THEN <<>> ELSE <<c>>)
    ELSE LET x == IF a = <<>> THEN 0 ELSE a[1]
             y == IF b = <<>> THEN 0 ELSE b[1]
             s == x + y + c
             ta == IF a = <<>> THEN a ELSE Tail(a)
             tb == IF b = <<>> THEN b ELSE Tail(b)
         IN <<s % Base>> \o AddC(ta, tb, s \div Base)

BigAdd(a, b) == AddC(a, b, 0)

\* a - b for a >= b
RECURSIVE SubB(_, _, _)
SubB(a, b, w) ==
    IF a = <<>> THEN <<>>
    ELSE LET y == IF b = <<>> THEN 0 ELSE b[1]
             d == a[1] - y - w
             tb == IF b = <<>> THEN b ELSE Tail(b)
         IN IF d < 0 THEN <<d + Base>> \o SubB(Tail(a), tb, 1)
            ELSE <<d>> \o SubB(Tail(a), tb, 0)

BigSub(a, b) == Trim(SubB(a, b, 0))

RECURSIVE MulSmallC(_, _, _)
MulSmallC(a, k, c) ==
    IF a = <<>> THEN (IF c = 0 THEN <<>> ELSE <<c>>)
    ELSE LET s == a[1] * k + c
         IN <<s % Base>> \o MulSmallC(Tail(a), k, s \div Base)

\* a * k for 0 <= k < Base
MulSmall(a, k) == Trim(MulSmallC(a, k, 0))

RECURSIVE BigMul(_, _)
BigMul(a, b) ==
    IF a = <<>> \/ b = <<>> THEN <<>>
    ELSE BigAdd(MulSmall(a, b[1]),
                LET r == BigMul(a, Tail(b)) IN IF r = <<>> THEN r ELSE <<0>> \o r)

\* quotient and remainder of a by k, 0 < k < Base; limbs taken from the top
RECURSIVE DivSmallR(_, _, _, _)
DivSmallR(a, k, i, r) ==
    IF i = 0 THEN [q |-> <<>>, r |-> r]
    ELSE LET cur == r * Base + a[i]
             rest == DivSmallR(a, k, i - 1, cur % k)
         IN [q |-> rest.q \o <<cur \div k>>, r |-> rest.r]

DivSmall(a, k) ==
    LET d == DivSmallR(a, k, Len(a), 0) IN [q |-> Trim(d.q), r |-> d.r]

RECURSIVE CmpR(_, _, _)
CmpR(a, b, i) ==
    IF i = 0 THEN 0
    ELSE IF a[i] < b[i] THEN -1
    ELSE IF a[i] > b[i] THEN 1
    ELSE CmpR(a, b, i - 1)

\* -1, 0, 1 as a < b, a = b, a > b
BigCmp(a, b) ==
    IF Len(a) < Len(b) THEN -1
    ELSE IF Len(a) > Len(b) THEN 1
    ELSE CmpR(a, b, Len(a))

RECURSIVE NatBits(_)
NatBits(n) == IF n = 0 THEN 0 ELSE 1 + NatBits(n \div 2)

BitLen(a) == IF a = <<>> THEN 0 ELSE (Len(a) - 1) * LimbBits + NatBits(a[Len(a)])

Zeros(n) == [i \in 1..n |-> 0]

\* a * 2^n
Shl(a, n) ==
    IF a = <<>> THEN a
    ELSE Zeros(n \div LimbBits) \o MulSmall(a, Pow2(n % LimbBits))

\* floor(a / 2^n)
Shr(a, n) ==
    LET w == n \div LimbBits
    IN IF w >= Len(a) THEN <<>>
       ELSE DivSmall(SubSeq(a, w + 1, Len(a)), Pow2(n % LimbBits)).q

IsOdd(a) == a # <<>> /\ a[1] % 2 = 1

\* round(N / 2^n) to nearest, ties to even; sticky says that N itself was
\* truncated from a value with a nonzero fraction
RoundShift(N, n, sticky) ==
    IF n = 0 THEN N
    ELSE LET q == Shr(N, n)
             rem == BigSub(N, Shl(q, n))
             c == BigCmp(rem, Shl(<<1>>, n - 1))
             up == c > 0 \/ (c = 0 /\ (sticky \/ IsOdd(q)))
         IN IF up THEN BigAdd(q, <<1>>) ELSE q

----------------------------------------------------------------------------
(* Python float: IEEE-754 binary64.  A value is (-1)^neg * m * 2^e with m  *)
(* a 53-bit natural (2^52 <= m < 2^53), or zero (m = <<>>, e = 0).  The    *)
(* values that occur are far from the subnormal and overflow ranges.       *)

MantBits == 53

FZero == [neg |-> FALSE, m |-> <<>>, e |-> 0]

\* the float q * 2^e for a rounded q of MantBits bits, or of one bit more
\* when the rounding carried into 2^MantBits
Pack(q, e) ==
    IF BitLen(q) > MantBits
    THEN [neg |-> FALSE, m |-> Shr(q, 1), e |-> e + 1]
    ELSE [neg |-> FALSE, m |-> q, e |-> e]

\* the binary64 nearest to (N + f) * 2^e, where 0 < f < 1 if sticky and
\* f = 0 otherwise; a sticky N has at least MantBits + 2 bits
RoundToDouble(N, e, sticky) ==
    IF N = <<>> THEN FZero
    ELSE LET s == IF BitLen(N) < MantBits + 2 THEN MantBits + 2 - BitLen(N) ELSE 0
             N2 == Shl(N, s)
             n == BitLen(N2) - MantBits
         IN Pack(RoundShift(N2, n, sticky), e - s + n)

\* float(n) for a natural n
FromInt(n) == RoundToDouble(FromNat(n), 0, FALSE)

\* x / k for a float x >= 0 and a float k that is a whole number, 0 < k < Base
FDivInt(x, k) ==
    IF x.m = <<>> THEN FZero
    ELSE LET d == DivSmall(Shl(x.m, 2 * LimbBits), k)
         IN RoundToDouble(d.q, x.e - 2 * LimbBits, d.r # 0)

\* x * y for floats x, y >= 0
FMul(x, y) ==
    IF x.m = <<>> \/ y.m = <<>> THEN FZero
    ELSE RoundToDouble(BigMul(x.m, y.m), x.e + y.e, FALSE)

\* x + y for floats x, y >= 0
FAdd(x, y) ==
    IF x.m = <<>> THEN y
    ELSE IF y.m = <<>> THEN x
    ELSE LET lo == IF x.e <= y.e THEN x ELSE y
             hi == IF x.e <= y.e THEN y ELSE x
         IN RoundToDouble(BigAdd(lo.m, Shl(hi.m, hi.e - lo.e)), lo.e, FALSE)

\* x < y on magnitudes of nonzero floats
MagLess(x, y) == x.e < y.e \/ (x.e = y.e /\ BigCmp(x.m, y.m) < 0)

\* x < y
FLess(x, y) ==
    IF x.m = <<>> THEN y.m # <<>> /\ ~y.neg
    ELSE IF y.m = <<>> THEN x.neg
    ELSE IF x.neg # y.neg THEN x.neg
    ELSE IF x.neg THEN MagLess(y, x) ELSE MagLess(x, y)

\* x <= y
FLe(x, y) == ~FLess(y, x)

\* The float written as the decimal literal n / 10^4 (n an integer): the
\* binary64 nearest to that rational, which is what the correctly rounded
\* division float(n) / 10000.0 yields.
DecimalScale == 10000

FromDecimal(n) ==
    [FDivInt(FromInt(IF n < 0 THEN -n ELSE n), DecimalScale) EXCEPT !.neg = (n < 0)]

\* The float literals of the source.
F100 == FromInt(100)

F04 == FDivInt(FromInt(4), 10)

F03 == FDivInt(FromInt(3), 10)

\* round(x, 2) of float.__round__ for x >= 0: the exact binary value of x is
\* rounded to a whole number of hundredths (ties to even, and a tie exists
\* only when the binary value is exactly halfway), and the float nearest to
\* that decimal is returned.
PyRound2(x) ==
    IF x.m = <<>> THEN FZero
    ELSE LET N == MulSmall(x.m, 100)
         IN FDivInt(RoundToDouble(IF x.e >= 0 THEN Shl(N, x.e)
                                  ELSE RoundShift(N, -x.e, FALSE), 0, FALSE), 100)

----------------------------------------------------------------------------
(* Input records.  A record is the Dict handed to _process_supplier_data:  *)
(* a function from the keys that are present to raw values.  The raw value *)
(* of a score is Num(n), a cell or JSON number written as the decimal      *)
(* n / 10^4, or Text, a string that float() does not accept.               *)

Num(n) == [kind |-> "num", n |-> n]

Text == [kind |-> "text", n |-> 0]

required_fields ==
    <<"supplier_id", "price_score", "delivery_reliability_score", "quality_rating_score">>

score_fields == <<"price_score", "delivery_reliability_score", "quality_rating_score">>

Row(id, p, d, q) ==
    [supplier_id |-> id, price_score |-> p, delivery_reliability_score |-> d,
     quality_rating_score |-> q]

\* 0, 5, 35, 100 and the two values of the boundary scenario
N0 == Num(0)

N5 == Num(50000)

N35 == Num(350000)

N100 == Num(1000000)

NAbove == Num(1000001)

NBelow == Num(-1)

ValidRecords ==
    { Row("s2", N100, N100, N100), Row("s1", N35, N0, N5),
      Row("s1", N0, N100, N0), Row("s2", N0, N0, N100) }

MissingRecords ==
    { [supplier_id |-> "s1", price_score |-> N0, delivery_reliability_score |-> N0],
      [supplier_id |-> "s2", delivery_reliability_score |-> Text] }

TextRecords == { Row("s2", NAbove, N0, Text) }

RangeRecords ==
    { Row("s2", N0, NBelow, NAbove), Row("s1", N100, N0, NAbove) }

Records == ValidRecords \cup MissingRecords \cup TextRecords \cup RangeRecords

----------------------------------------------------------------------------
(* Errors: the ValueError that leaves a call, by the text of its message.  *)

NoError == [kind |-> "none", supplier_id |-> "", fields |-> <<>>]

Raise(kind, id, fields) == [kind |-> kind, supplier_id |-> id, fields |-> fields]

UnsupportedLanguage == "Unsupported language detected"

InvalidFormat == "Invalid data format"

MissingField == "Missing required field(s)"

InvalidType == "Invalid data type"

InvalidValue == "Invalid value"

FloatConversion == "could not convert string to float"

----------------------------------------------------------------------------
(* VendorSelectorAI                                                        *)

validate_language(text) ==
    IF ~text.ascii THEN Raise(UnsupportedLanguage, "", <<>>) ELSE NoError

validate_format(format_type) ==
    IF format_type \notin {"csv", "json"} THEN Raise(InvalidFormat, "", <<>>) ELSE NoError

\* isinstance(score, (int, float))
IsNumber(score) == DOMAIN score = {"neg", "m", "e"}

\* validate_score without the upper bound
validate_score_no_upper(score, field_name, supplier_id) ==
    IF ~IsNumber(score) THEN Raise(InvalidType, supplier_id, <<field_name>>)
    ELSE IF ~FLe(FZero, score)
         THEN Raise(InvalidValue, supplier_id, <<field_name>>)
         ELSE NoError

\* validate_score with a strict upper bound
validate_score_strict(score, field_name, supplier_id) ==
    IF ~IsNumber(score) THEN Raise(InvalidType, supplier_id, <<field_name>>)
    ELSE IF ~(FLe(FZero, score) /\ FLess(score, F100))
         THEN Raise(InvalidValue, supplier_id, <<field_name>>)
         ELSE NoError

validate_score(score, field_name, supplier_id) ==
    IF ~IsNumber(score) THEN Raise(InvalidType, supplier_id, <<field_name>>)
    ELSE IF ~(FLe(FZero, score) /\ FLe(score, F100))
         THEN Raise(InvalidValue, supplier_id, <<field_name>>)
         ELSE NoError

\* float(value)
Coercible(value) == value.kind = "num"

float(value) == FromDecimal(value.n)

calculate_overall_score(supplier) ==
    LET price_component == FMul(FDivInt(supplier.price_score, 100), F04)
        delivery_component == FMul(FDivInt(supplier.delivery_reliability_score, 100), F03)
        quality_component == FMul(FDivInt(supplier.quality_rating_score, 100), F03)
    IN PyRound2(FAdd(FAdd(price_component, delivery_component), quality_component))

\* missing_fields stopping at the first absent field
missing_fields_first(data) ==
    LET m == SelectSeq(required_fields, LAMBDA field : field \notin DOMAIN data)
    IN IF m = <<>> THEN m ELSE <<m[1]>>

missing_fields(data) == SelectSeq(required_fields, LAMBDA field : field \notin DOMAIN data)

\* the first error among the three validate_score calls, in call order
RECURSIVE FirstScoreError(_, _)
FirstScoreError(supplier, fields) ==
    IF fields = <<>> THEN NoError
    ELSE LET err == validate_score(supplier[Head(fields)], Head(fields), supplier.supplier_id)
         IN IF err # NoError THEN err ELSE FirstScoreError(supplier, Tail(fields))

NoSupplier ==
    [supplier_id |-> "", price_score |-> FZero, delivery_reliability_score |-> FZero,
     quality_rating_score |-> FZero, overall_score |-> FZero]

\* the outcome of one call: the error raised, or the supplier appended
process_supplier_data(data) ==
    IF missing_fields(data) # <<>>
    THEN [error |-> Raise(MissingField, "", missing_fields(data)), supplier |-> NoSupplier]
    ELSE IF \E f \in DOMAIN score_fields : ~Coercible(data[score_fields[f]])
    THEN [error |-> Raise(FloatConversion, "", <<>>), supplier |-> NoSupplier]
    ELSE LET supplier ==
                 [supplier_id |-> data.supplier_id,
                  price_score |-> float(data.price_score),
                  delivery_reliability_score |-> float(data.delivery_reliability_score),
                  quality_rating_score |-> float(data.quality_rating_score),
                  overall_score |-> FZero]
             err == FirstScoreError(supplier, score_fields)
         IN IF err # NoError THEN [error |-> err, supplier |-> NoSupplier]
            ELSE [error |-> NoError,
                  supplier |-> [supplier EXCEPT !.overall_score = calculate_overall_score(supplier)]]

\* _process_supplier_data tabulated over the records of the model
ProcessedRecord == [r \in Records |-> process_supplier_data(r)]

\* the outcome of _process_supplier_data on each row
RowOutcomes(rows) == [i \in 1..Len(rows) |-> ProcessedRecord[rows[i]]]

\* the loop of parse_csv_data / parse_json_data from row i on, over the
\* outcomes of the rows: rows are processed in order and the first error
\* leaves the loop
RECURSIVE ParseRows(_, _, _)
ParseRows(outs, i, sups) ==
    IF i > Len(outs) THEN [suppliers |-> sups, error |-> NoError, processed |-> Len(outs)]
    ELSE IF outs[i].error # NoError
    THEN [suppliers |-> sups, error |-> outs[i].error, processed |-> i]
    ELSE ParseRows(outs, i + 1, Append(sups, outs[i].supplier))

\* sorted(suppliers, key=overall_score, reverse=True): Python's sort is
\* stable, also with reverse=True
\* a descending sort that puts a supplier before those of equal score
RECURSIVE InsertDesc_unstable(_, _)
InsertDesc_unstable(x, s) ==
    IF s = <<>> THEN <<x>>
    ELSE IF FLe(Head(s).overall_score, x.overall_score) THEN <<x>> \o s
    ELSE <<Head(s)>> \o InsertDesc_unstable(x, Tail(s))

RECURSIVE InsertDesc(_, _)
InsertDesc(x, s) ==
    IF s = <<>> THEN <<x>>
    ELSE IF FLess(Head(s).overall_score, x.overall_score) THEN <<x>> \o s
    ELSE <<Head(s)>> \o InsertDesc(x, Tail(s))

RECURSIVE sorted(_)
sorted(s) ==
    IF s = <<>> THEN <<>>
    ELSE InsertDesc(s[Len(s)], sorted(SubSeq(s, 1, Len(s) - 1)))

\* generate_validation_report with the two numbers of the structure swapped
ValidationReport_swapped(sups) ==
    [structure |-> [suppliers |-> 4, fields_per_record |-> Len(sups)],
     required_fields |-> [f \in {required_fields[i] : i \in DOMAIN required_fields} |-> "Present"],
     data_types |-> [f \in {"Price Score", "Delivery Reliability Score", "Quality Rating Score"}
                       |-> "Valid"],
     summary |-> ""]

\* what generate_validation_report stores in self.validation_report
ValidationReport(sups) ==
    [structure |-> [suppliers |-> Len(sups), fields_per_record |-> 4],
     required_fields |-> [f \in {required_fields[i] : i \in DOMAIN required_fields} |-> "Present"],
     data_types |-> [f \in {"Price Score", "Delivery Reliability Score", "Quality Rating Score"}
                       |-> "Valid"],
     summary |-> ""]

\* the three rounded components shown in a supplier's subsection
Components(supplier) ==
    [price_component |-> PyRound2(FMul(FDivInt(supplier.price_score, 100), F04)),
     delivery_component |-> PyRound2(FMul(FDivInt(supplier.delivery_reliability_score, 100), F03)),
     quality_component |-> PyRound2(FMul(FDivInt(supplier.quality_rating_score, 100), F03))]

\* the suppliers that _process_supplier_data builds from the records
ProcessedSuppliers == {ProcessedRecord[r].supplier : r \in Records} \ {NoSupplier}

\* Components tabulated over the suppliers of the model
ComponentsOf == [s \in ProcessedSuppliers |-> Components(s)]

TopMarker == "Selected as Top Vendor"

RankMarker == "Rank"

\* one subsection of the detailed analysis; rank is printed only when the
\* supplier is not marked top
generate_supplier_analysis(supplier, rank, is_top) ==
    [supplier_id |-> supplier.supplier_id,
     price_score |-> supplier.price_score,
     delivery_reliability_score |-> supplier.delivery_reliability_score,
     quality_rating_score |-> supplier.quality_rating_score,
     components |-> ComponentsOf[supplier],
     overall_score |-> supplier.overall_score,
     status |-> IF is_top THEN [marker |-> TopMarker, rank |-> 0]
                ELSE [marker |-> RankMarker, rank |-> rank]]

TopScore(ranked_suppliers) ==
    IF ranked_suppliers # <<>> THEN ranked_suppliers[1].overall_score ELSE FZero

\* the detailed analysis marking only the first of the ranked suppliers
DetailedAnalysis_first_only(ranked_suppliers, top_score) ==
    [i \in 1..Len(ranked_suppliers) |->
        generate_supplier_analysis(ranked_suppliers[i], i, i = 1)]

DetailedAnalysis(ranked_suppliers, top_score) ==
    [i \in 1..Len(ranked_suppliers) |->
        generate_supplier_analysis(ranked_suppliers[i], i,
                                   ranked_suppliers[i].overall_score = top_score)]

\* the final ranking listing only the first of the ranked suppliers
FinalRanking_first_only(ranked_suppliers, top_score) ==
    IF ranked_suppliers = <<>> THEN <<>> ELSE <<ranked_suppliers[1].supplier_id>>

FinalRanking(ranked_suppliers, top_score) ==
    LET top == SelectSeq(ranked_suppliers, LAMBDA x : x.overall_score = top_score)
    IN [i \in 1..Len(top) |-> top[i].supplier_id]

\* the text returned by generate_final_report, by its parts
FinalReport(sups) ==
    LET ranked_suppliers == sorted(sups)
        top_score == TopScore(ranked_suppliers)
    IN [validation |-> ValidationReport(sups),
        total |-> Len(sups),
        sections |-> DetailedAnalysis(ranked_suppliers, top_score),
        top_score |-> top_score,
        final |-> FinalRanking(ranked_suppliers, top_score)]

NoReport ==
    [validation |-> ValidationReport(<<>>), total |-> 0, sections |-> <<>>,
     top_score |-> FZero, final |-> <<>>]

----------------------------------------------------------------------------
(* The session                                                             *)

MaxRows == 3

MaxCalls == 2

Formats == {"csv", "json", "xml"}

\* The payloads handed to parse_input_data with n rows: ASCII csv text with
\* any rows, and every combination of language and format tag with at most
\* one row (the row loop is the same for csv and json).
Inputs(n) ==
    {[ascii |-> a, format |-> f, records |-> b] :
        a \in (IF n <= 1 THEN BOOLEAN ELSE {TRUE}),
        f \in (IF n <= 1 THEN Formats ELSE {"csv"}),
        b \in [1..n -> Records]}

vars == <<suppliers, validation_report, last_input, processed, lastCall, raised, report,
          calls, submitted, aborted>>

Init ==
    /\ suppliers = <<>>
    /\ validation_report = [structure |-> <<>>, required_fields |-> <<>>,
                            data_types |-> <<>>, summary |-> ""]
    /\ last_input = [ascii |-> TRUE, format |-> "csv", records |-> <<>>]
    /\ processed = 0
    /\ lastCall = "none"
    /\ raised = NoError
    /\ report = NoReport
    /\ calls = 0
    /\ submitted = 0
    /\ aborted = FALSE

\* the outcome of parse_input_data(input) on a session holding sups
ParseOutcome(input, sups) ==
    IF validate_language(input) # NoError
    THEN [suppliers |-> sups, error |-> validate_language(input), processed |-> 0]
    ELSE IF validate_format(input.format) # NoError
    THEN [suppliers |-> sups, error |-> validate_format(input.format), processed |-> 0]
    ELSE ParseRows(RowOutcomes(input.records), 1, sups)

\* the session after a call whose outcome is out
Returned(out) ==
    /\ suppliers' = out.suppliers
    /\ raised' = out.error
    /\ processed' = out.processed
    /\ aborted' = (aborted \/ out.error # NoError)

parse_input_data(input) ==
    /\ calls < MaxCalls
    /\ submitted + Len(input.records) <= MaxRows
    /\ Returned(ParseOutcome(input, suppliers))
    /\ last_input' = input
    /\ lastCall' = "parse_input_data"
    /\ report' = NoReport
    /\ calls' = calls + 1
    /\ submitted' = submitted + Len(input.records)
    /\ UNCHANGED validation_report

generate_final_report ==
    /\ validation_report' = ValidationReport(suppliers)
    /\ report' = FinalReport(suppliers)
    /\ lastCall' = "generate_final_report"
    /\ raised' = NoError
    /\ UNCHANGED <<suppliers, last_input, processed, calls, submitted, aborted>>

Next ==
    \/ \E n \in 0..(MaxRows - submitted) : \E input \in Inputs(n) : parse_input_data(input)
    \/ generate_final_report

Spec == Init /\ [][Next]_vars

----------------------------------------------------------------------------
(* Vocabulary of the properties.  Scores are read as the decimals that     *)
(* were submitted (in units of 1/DecimalScale), not as floats.             *)

AfterParse == lastCall = "parse_input_data"

AfterReport == lastCall = "generate_final_report"

RequiredSet == {required_fields[i] : i \in DOMAIN required_fields}

Complete(rec) == RequiredSet \subseteq DOMAIN rec

AllNumeric(rec) == \A j \in DOMAIN score_fields : rec[score_fields[j]].kind = "num"

InRangeDecimal(v) == 0 <= v.n /\ v.n <= 100 * DecimalScale

Least(S) == CHOOSE j \in S : \A k \in S : j <= k

\* row i of the latest batch was appended to the collection
Accepted(i) == i < processed \/ raised = NoError

NumAccepted ==
    IF raised = NoError THEN processed ELSE IF processed = 0 THEN 0 ELSE processed - 1

SupplierOfRow(i) == suppliers[Len(suppliers) - NumAccepted + i]

IsMax(s) == \A j \in 1..Len(suppliers) : FLe(suppliers[j].overall_score, s.overall_score)

\* hundredths of 0.004p + 0.003d + 0.003q rounded half away from zero
HalfAwayHundredths(p, d, q) == (4 * p + 3 * d + 3 * q + 5 * DecimalScale) \div (10 * DecimalScale)

\* the floats of the records with all four fields and decimal scores in [0,100]
ValidatedImages ==
    { <<r.supplier_id, float(r.price_score), float(r.delivery_reliability_score),
        float(r.quality_rating_score)>> :
      r \in {x \in Records : /\ Complete(x)
                             /\ AllNumeric(x)
                             /\ \A j \in DOMAIN score_fields : InRangeDecimal(x[score_fields[j]])} }

----------------------------------------------------------------------------
(* Properties                                                              *)

\* C1: the Final Ranking section of a report lists exactly the suppliers
\* whose overall_score is the maximum over the collection: each supplier id
\* is listed as many times as there are suppliers with that id and the
\* maximum score.
FinalRankingIsTopSet ==
    AfterReport =>
        LET ids == {suppliers[i].supplier_id : i \in 1..Len(suppliers)}
                   \cup {report.final[i] : i \in 1..Len(report.final)}
        IN \A id \in ids :
              Cardinality({i \in 1..Len(report.final) : report.final[i] = id})
              = Cardinality({i \in 1..Len(suppliers) :
                                suppliers[i].supplier_id = id /\ IsMax(suppliers[i])})

\* C1 witness: a report over three suppliers, two of them tied for the top.
FinalRankingWitness ==
    AfterReport /\ Len(suppliers) = 3 /\ Len(report.final) = 2

\* C2: the subsections of a report follow a permutation of the collection
\* that is descending in overall_score and keeps suppliers of equal score
\* in arrival order.
RankingStableDescending ==
    AfterReport =>
        LET N == Len(suppliers)
            sec == report.sections
        IN /\ Len(sec) = N
           /\ \E pi \in Permutations(1..N) :
                 /\ \A i \in 1..N :
                       /\ sec[i].supplier_id = suppliers[pi[i]].supplier_id
                       /\ sec[i].price_score = suppliers[pi[i]].price_score
                       /\ sec[i].delivery_reliability_score
                            = suppliers[pi[i]].delivery_reliability_score
                       /\ sec[i].quality_rating_score = suppliers[pi[i]].quality_rating_score
                       /\ sec[i].overall_score = suppliers[pi[i]].overall_score
                 /\ \A i, j \in 1..N :
                       i < j => /\ FLe(sec[j].overall_score, sec[i].overall_score)
                                /\ sec[i].overall_score = sec[j].overall_score => pi[i] < pi[j]

\* C2 witness: a report over a collection that arrived out of order and
\* holds two different suppliers of equal score.
RankingWitness ==
    /\ AfterReport
    /\ Len(suppliers) = 3
    /\ FLess(suppliers[1].overall_score, suppliers[2].overall_score)
    /\ suppliers[2].overall_score = suppliers[3].overall_score
    /\ suppliers[2].supplier_id # suppliers[3].supplier_id

\* C3: every appended supplier's overall_score is 0.004p + 0.003d + 0.003q
\* of its submitted scores rounded to two decimals (half away from zero),
\* and lies in [0, 1].
ScoreIsRoundedWeightedSum ==
    AfterParse =>
        \A i \in 1..NumAccepted :
            LET r == last_input.records[i]
                s == SupplierOfRow(i)
            IN /\ s.overall_score
                    = FromDecimal(100 * HalfAwayHundredths(r.price_score.n,
                                                           r.delivery_reliability_score.n,
                                                           r.quality_rating_score.n))
               /\ FLe(FZero, s.overall_score)
               /\ FLe(s.overall_score, FromInt(1))

\* C4: once a parse_input_data call of the session has raised, a report
\* holds no supplier.
NoPartialResultSurvives ==
    (aborted /\ AfterReport) =>
        /\ report.total = 0
        /\ report.validation.structure.suppliers = 0
        /\ Len(report.sections) = 0

\* C5: every supplier of the collection comes from a record that had all
\* four fields and three scores in [0,100], and holds floats in [0,100].
CollectionValidated ==
    \A i \in 1..Len(suppliers) :
        LET s == suppliers[i]
        IN /\ <<s.supplier_id, s.price_score, s.delivery_reliability_score,
                s.quality_rating_score>> \in ValidatedImages
           /\ \A j \in DOMAIN score_fields :
                 /\ IsNumber(s[score_fields[j]])
                 /\ FLe(FZero, s[score_fields[j]])
                 /\ FLe(s[score_fields[j]], F100)

\* C5 witness: a second call raised on a row out of range while the
\* collection holds suppliers.
CollectionValidatedWitness ==
    /\ AfterParse
    /\ calls = 2
    /\ raised.kind = InvalidValue
    /\ Len(suppliers) >= 2

\* C6: a processed row that lacks required fields ends the call with the
\* missing-field error, which names every absent field once, whatever the
\* values of the fields that are present.
MissingFieldsAllNamed ==
    AfterParse =>
        \A i \in 1..processed :
            LET r == last_input.records[i]
                absent == RequiredSet \ DOMAIN r
            IN absent # {} =>
                  /\ i = processed
                  /\ raised.kind = MissingField
                  /\ {raised.fields[j] : j \in DOMAIN raised.fields} = absent
                  /\ Len(raised.fields) = Cardinality(absent)

\* C6 witness: the row without price and quality, whose delivery score is
\* not a number, was processed.
MissingFieldsWitness ==
    /\ AfterParse
    /\ processed >= 1
    /\ DOMAIN last_input.records[processed] = {"supplier_id", "delivery_reliability_score"}
    /\ last_input.records[processed].delivery_reliability_score = Text
    /\ Len(raised.fields) = 2

\* C7: a processed row with all four fields and a score that is not a
\* number ends the call with the invalid-type error naming the supplier id
\* and the first such field.
TypeErrorNamesSupplierAndField ==
    AfterParse =>
        \A i \in 1..processed :
            LET r == last_input.records[i]
            IN (Complete(r) /\ ~AllNumeric(r)) =>
                  /\ i = processed
                  /\ raised = Raise(InvalidType, r.supplier_id,
                                    <<score_fields[Least({j \in DOMAIN score_fields :
                                                   r[score_fields[j]].kind # "num"})]>>)

\* C8: a processed row with all four fields and numeric scores is appended
\* if and only if every score lies in [0,100]; otherwise the call ends with
\* the invalid-value error naming the supplier id and the first field out
\* of range in the order price, delivery, quality.
RangeCheckedInOrder ==
    AfterParse =>
        \A i \in 1..processed :
            LET r == last_input.records[i]
                bad == {j \in DOMAIN score_fields : ~InRangeDecimal(r[score_fields[j]])}
            IN (Complete(r) /\ AllNumeric(r)) =>
                  /\ (bad = {}) <=> Accepted(i)
                  /\ bad # {} =>
                        raised = Raise(InvalidValue, r.supplier_id, <<score_fields[Least(bad)]>>)

\* C8 witness: a row of scores exactly 100 was appended and the next row,
\* with delivery just below 0 and quality just above 100, was rejected.
RangeCheckedWitness ==
    /\ AfterParse
    /\ processed = 2
    /\ last_input.records[1] = Row("s2", N100, N100, N100)
    /\ last_input.records[2] = Row("s2", N0, NBelow, NAbove)
    /\ raised.fields = <<"delivery_reliability_score">>

\* C9: a report on a session whose only rows are one batch of N valid
\* records states N suppliers in the validation report and in the total,
\* and has N subsections, one per record of the batch.
ReportCountsBatch ==
    (AfterReport /\ ~aborted /\ submitted = Len(last_input.records)) =>
        LET N == Len(last_input.records)
        IN /\ report.validation.structure.suppliers = N
           /\ report.total = N
           /\ Len(report.sections) = N
           /\ \E pi \in Permutations(1..N) :
                 \A i \in 1..N :
                    report.sections[i].supplier_id = last_input.records[pi[i]].supplier_id

\* C9 witness: a report on a session fed one batch of two valid records.
ReportCountsWitness ==
    /\ AfterReport
    /\ ~aborted
    /\ submitted = Len(last_input.records)
    /\ Len(last_input.records) = 2

\* C10: a subsection carries the top marker exactly when its supplier has
\* the maximum score; any other subsection carries its position as rank,
\* which is never 1; the subsections marked top are those of the final
\* ranking.
TopMarkerOrRank ==
    AfterReport =>
        LET sec == report.sections
            top == SelectSeq(sec, LAMBDA x : x.status.marker = TopMarker)
        IN /\ \A i \in 1..Len(sec) :
                 /\ sec[i].status.marker = TopMarker <=> IsMax(sec[i])
                 /\ sec[i].status.marker # TopMarker =>
                       /\ sec[i].status.marker = RankMarker
                       /\ sec[i].status.rank = i
                       /\ i # 1
           /\ [i \in 1..Len(top) |-> top[i].supplier_id] = report.final

\* C10 witness: a report with two suppliers marked top and one ranked 3.
TopMarkerWitness ==
    /\ AfterReport
    /\ Len(report.sections) = 3
    /\ report.sections[2].status.marker = TopMarker
    /\ report.sections[3].status = [marker |-> RankMarker, rank |-> 3]

====
